---------------------------- MODULE Spec2Model ----------------------------
(***************************************************************************)
(* A model of scraper.py, the quick-commerce news scraper.                 *)
(*                                                                         *)
(* Two specifications are given.                                           *)
(*   Spec      one run of main(): argument parsing, construction of the    *)
(*             scraper, the RSS harvest, the NewsAPI harvest, the          *)
(*             deduplication and the report.                               *)
(*   UnitSpec  single calls of the pure methods (remove_duplicates,        *)
(*             _calculate_timeframe, is_article_in_timeframe and the       *)
(*             extraction of extract_content_from_url) on inputs drawn     *)
(*             from bounded sets.                                          *)
(*                                                                         *)
(* Conventions.  Instants and durations are integers counting minutes.     *)
(* Python strings that the code searches (urls, NewsAPI content) are       *)
(* tuples of one-character strings; texts that are only measured and       *)
(* concatenated are TLA+ strings.  A Python None is the empty tuple <<>>   *)
(* and a present value v is the one-element tuple <<v>>.                   *)
(***************************************************************************)
EXTENDS Integers, Sequences, FiniteSets, TLC

VARIABLES
    \* ---- UnitSpec: one call of a pure method
    fn,              \* the method called ("none" in Spec)
    args,            \* its arguments
    ret,             \* <<>> before the call, <<value>> after it
    \* ---- Spec: one run of main()
    pc,              \* position of the run in the code
    timeframe,       \* main's local variable `timeframe` (line 393)
    scraper,         \* self.timeframe, self.start_date, self.end_date
    api_key,         \* os.getenv('NEWS_API_KEY'): <<>> or <<key>>
    src,             \* index in rss_sources of the source being harvested
    items_left,      \* items of the current feed document not yet visited
    budget,          \* feed items / API results the environment may still serve
    cur,             \* the feed item being turned into an article
    articles,        \* search_direct_rss_feeds' local list `articles`
    all_articles,    \* scrape_all_news' local list `all_articles`
    kw,              \* index of the NewsAPI keyword being queried
    unique_articles, \* the result of scrape_all_news
    events,          \* the last two outbound operations / pauses, oldest first
    attempted,       \* the feed sources whose GET was issued
    last_failed,     \* index of the feed source that failed last, 0 if none
    log,             \* main's and __init__'s warnings and final messages
    exit_code        \* <<>> while running, <<status>> once the process ended

unit_vars == <<fn, args, ret>>
run_vars  == <<pc, timeframe, scraper, api_key, src, items_left, budget, cur,
               articles, all_articles, kw, unique_articles, events, attempted,
               last_failed, log, exit_code>>
vars == <<fn, args, ret, pc, timeframe, scraper, api_key, src, items_left,
          budget, cur, articles, all_articles, kw, unique_articles, events,
          attempted, last_failed, log, exit_code>>

-----------------------------------------------------------------------------
(* Strings *)

None == <<>>
Some(v) == <<v>>

\* `sub in s` for Python strings given as tuples of characters.
Contains(sub, s) ==
    \E i \in 0..(Len(s) - Len(sub)) :
        \A j \in 1..Len(sub) : s[i + j] = sub[j]

\* The text of a tuple of characters.
RECURSIVE Str(_)
Str(chars) == IF chars = <<>> THEN "" ELSE Head(chars) \o Str(Tail(chars))

Min(a, b) == IF a <= b THEN a ELSE b

-----------------------------------------------------------------------------
(* Timeframe: __init__ and _calculate_timeframe *)

\* self.timeframe_options: each entry has either an 'hours' or a 'days' key.
timeframe_options ==
    [t \in {"6h", "12h", "24h"} |->
        [hours |-> CASE t = "6h" -> 6 [] t = "12h" -> 12 [] OTHER -> 24]]
    @@
    [t \in {"2d", "3d", "7d", "14d", "30d", "60d", "90d"} |->
        [days |-> CASE t = "2d" -> 2 [] t = "3d" -> 3 [] t = "7d" -> 7
                    [] t = "14d" -> 14 [] t = "30d" -> 30 [] t = "60d" -> 60
                    [] OTHER -> 90]]

\* timedelta(hours=h) and timedelta(days=d), in minutes.
timedelta_hours(h) == h * 60
timedelta_days(d) == d * 24 * 60

\* A variant of _calculate_timeframe that reads every count as hours.
calculate_timeframe_hours_only(tf, now) ==
    LET tf2 == IF tf \notin DOMAIN timeframe_options THEN "7d" ELSE tf
        cfg == timeframe_options[tf2]
        n == IF "hours" \in DOMAIN cfg THEN cfg.hours ELSE cfg.days
    IN [raised |-> None, timeframe |-> tf2,
        warned |-> tf \notin DOMAIN timeframe_options,
        start_date |-> now - timedelta_hours(n), end_date |-> now]

\* _calculate_timeframe with self.timeframe = tf and datetime.now() = now.
\* The result carries the new self.timeframe, whether the warning was logged
\* and the pair returned (or the exception raised).
calculate_timeframe(tf, now) ==
    LET end_date == now
        invalid == tf \notin DOMAIN timeframe_options
        tf2 == IF invalid THEN "7d" ELSE tf
        timeframe_config == timeframe_options[tf2]
    IN  IF "hours" \in DOMAIN timeframe_config
        THEN [raised |-> None, timeframe |-> tf2, warned |-> invalid,
              start_date |-> end_date - timedelta_hours(timeframe_config.hours),
              end_date |-> end_date]
        ELSE IF "days" \in DOMAIN timeframe_config
        THEN [raised |-> None, timeframe |-> tf2, warned |-> invalid,
              start_date |-> end_date - timedelta_days(timeframe_config.days),
              end_date |-> end_date]
        ELSE [raised |-> Some("UnboundLocalError"), timeframe |-> tf2,
              warned |-> invalid, start_date |-> 0, end_date |-> end_date]

-----------------------------------------------------------------------------
(* is_article_in_timeframe *)

\* A pubDate string is modelled by what parsing makes of it:
\*   [form |-> "empty"]                      the empty string
\*   [form |-> "garbage"]                    parsedate_to_datetime raises
\*   [form |-> "rfc2822", wall, tz]          a date whose fields read `wall`
\*       (minutes) and whose zone is absent (tz = <<>>) or the UTC offset
\*       <<minutes>>.
EmptyDate == [form |-> "empty"]
GarbageDate == [form |-> "garbage"]
Rfc2822(wall, tz) == [form |-> "rfc2822", wall |-> wall, tz |-> tz]

\* email.utils.parsedate_to_datetime: a datetime, aware when a zone is given.
parsedate_to_datetime(s) ==
    IF s.form = "rfc2822"
    THEN [raised |-> None, wall |-> s.wall, tzinfo |-> s.tz]
    ELSE [raised |-> Some("ValueError")]

\* datetime.replace(tzinfo=None): the fields are kept, the zone is dropped.
replace_tzinfo_none(dt) == [dt EXCEPT !.tzinfo = None]

\* A variant of is_article_in_timeframe that accepts every date.
is_article_in_timeframe_always(pub_date_str, start_date) == TRUE

\* is_article_in_timeframe with self.start_date = start_date (a naive local
\* datetime, read as its wall-clock minutes).
is_article_in_timeframe(pub_date_str, start_date) ==
    IF pub_date_str.form = "empty" THEN TRUE
    ELSE LET parsed == parsedate_to_datetime(pub_date_str) IN
         IF parsed.raised # None THEN TRUE          \* except: return True
         ELSE LET pub_date == IF parsed.tzinfo # None
                              THEN replace_tzinfo_none(parsed) ELSE parsed
              IN pub_date.wall >= start_date

-----------------------------------------------------------------------------
(* remove_duplicates *)

\* article.get('url', '')
get_url(article) == IF "url" \in DOMAIN article THEN article.url ELSE <<>>

RECURSIVE remove_duplicates_loop(_, _, _)
remove_duplicates_loop(rest, seen_urls, unique) ==
    IF rest = <<>> THEN unique
    ELSE LET article == Head(rest)
             url == get_url(article)
         IN IF url \notin seen_urls
            THEN remove_duplicates_loop(Tail(rest), seen_urls \cup {url},
                                        Append(unique, article))
            ELSE remove_duplicates_loop(Tail(rest), seen_urls, unique)

\* A variant of remove_duplicates in which the last occurrence wins.
RECURSIVE remove_duplicates_keep_last(_)
remove_duplicates_keep_last(arts) ==
    IF arts = <<>> THEN <<>>
    ELSE IF \E j \in 2..Len(arts) : get_url(arts[j]) = get_url(arts[1])
         THEN remove_duplicates_keep_last(Tail(arts))
         ELSE <<Head(arts)>> \o remove_duplicates_keep_last(Tail(arts))

remove_duplicates(arts) == remove_duplicates_loop(arts, {}, <<>>)

-----------------------------------------------------------------------------
(* clean_text and extract_content_from_url *)

\* The text of a node, element.get_text(): `body` is the text with its
\* whitespace already collapsed and stripped, `pad` counts the whitespace
\* characters that collapsing and stripping remove.
RawText(pad, body) == [pad |-> pad, body |-> body]
raw_len(raw) == raw.pad + Len(raw.body)

\* clean_text: "" for a falsy text, else re.sub(r'\s+', ' ', text.strip()).
clean_text(raw) == IF raw_len(raw) = 0 THEN "" ELSE raw.body

article_selectors ==
    << "article", ".article-content", ".entry-content", ".post-content",
       ".article-body", ".story-body", ".content", ".main-content",
       "[data-module=\"ArticleBody\"]", ".story-text", ".article-text" >>

\* The domains extract_content_from_url refuses to fetch (line 99).
redirect_domains ==
    { <<"n","e","w","s",".","g","o","o","g","l","e",".","c","o","m">>,
      <<"g","o","o","g","l","e",".","c","o","m","/","u","r","l">>,
      <<"t",".","c","o">> }

REDIRECT_SKIPPED == "Redirect URL - content extraction skipped"
EXTRACTION_FAILED == "Content extraction failed - unable to locate article text"
ERROR_PREFIX == "Error extracting content: "

\* A parsed document: `elems` are its p and div elements in document order,
\* each with its tag, its text, whether its lowered text holds one of the
\* unwanted words of line 146, whether it lies inside an element that line
\* 115 removes, and the selectors whose first match (select_one) contains it;
\* `nodes` are the selectors that match some node.
decompose_unwanted(soup) ==
    [soup EXCEPT !.elems = SelectSeq(soup.elems, LAMBDA e : ~e.noise)]

\* '\n\n'.join(texts)
RECURSIVE join(_)
join(texts) ==
    IF texts = <<>> THEN ""
    ELSE IF Len(texts) = 1 THEN texts[1]
    ELSE texts[1] \o "\n\n" \o join(Tail(texts))

\* The texts longer than 50 characters among `paragraphs`, cleaned, appended
\* to content_text (lines 132-135).
RECURSIVE collect(_, _)
collect(paragraphs, content_text) ==
    IF paragraphs = <<>> THEN content_text
    ELSE LET text == clean_text(Head(paragraphs).raw)
         IN collect(Tail(paragraphs),
                    IF Len(text) > 50 THEN Append(content_text, text)
                    ELSE content_text)

\* A variant of the selector loop without the break of lines 136-137: every
\* matching selector adds its fragments.
RECURSIVE method1_no_break(_, _, _, _)
method1_no_break(soup, i, content_text, probed) ==
    IF i > Len(article_selectors)
    THEN [content_text |-> content_text, probed |-> probed]
    ELSE LET selector == article_selectors[i] IN
         IF selector \in soup.nodes
         THEN method1_no_break(soup, i + 1,
                  collect(SelectSeq(soup.elems,
                              LAMBDA e : selector \in e.within), content_text),
                  Append(probed, selector))
         ELSE method1_no_break(soup, i + 1, content_text,
                               Append(probed, selector))

\* Method 1 (lines 128-137): the loop over article_selectors from index i on.
\* `probed` lists the selectors given to select_one.
RECURSIVE method1(_, _, _, _)
method1(soup, i, content_text, probed) ==
    IF i > Len(article_selectors)
    THEN [content_text |-> content_text, probed |-> probed]
    ELSE LET selector == article_selectors[i]
             probed2 == Append(probed, selector)
         IN IF selector \in soup.nodes                     \* if article_elem
            THEN LET paragraphs ==                         \* find_all(p, div)
                         SelectSeq(soup.elems,
                                   LAMBDA e : selector \in e.within)
                     content2 == collect(paragraphs, content_text)
                 IN IF content2 # <<>>
                    THEN [content_text |-> content2, probed |-> probed2]
                    ELSE method1(soup, i + 1, content2, probed2)
            ELSE method1(soup, i + 1, content_text, probed2)

\* Method 2 (lines 140-148): every p of the document.
RECURSIVE method2(_, _)
method2(all_paragraphs, content_text) ==
    IF all_paragraphs = <<>> THEN content_text
    ELSE LET p == Head(all_paragraphs)
             text == clean_text(p.raw)
         IN method2(Tail(all_paragraphs),
                    IF Len(text) > 50 /\ ~p.boiler
                    THEN Append(content_text, text) ELSE content_text)

\* Lines 112-154 on a parsed response: the content returned, with the
\* selectors probed and whether method 2 ran.
extract_from_soup(parsed) ==
    LET soup == decompose_unwanted(parsed)
        m1 == method1(soup, 1, <<>>, <<>>)
        tier2 == m1.content_text = <<>>
        content_text ==
            IF tier2
            THEN method2(SelectSeq(soup.elems, LAMBDA e : e.tag = "p"), <<>>)
            ELSE m1.content_text
    IN [content |-> IF content_text # <<>>
                    THEN join(SubSeq(content_text, 1, Min(15, Len(content_text))))
                    ELSE EXTRACTION_FAILED,
        probed |-> m1.probed, tier2 |-> tier2]

\* line 99
is_redirect_url(url) == \E domain \in redirect_domains : Contains(domain, url)

\* extract_content_from_url.  `response` is what the GET of line 109 and the
\* parse of line 112 give for this url: [raised |-> <<str(e)>>] when either
\* raises (an invalid url, a transport error, an error status), else
\* [raised |-> <<>>, soup |-> the parsed document].
extract_content_from_url(url, response) ==
    IF is_redirect_url(url)
    THEN [content |-> REDIRECT_SKIPPED, fetched |-> FALSE]
    ELSE IF response.raised # None
    THEN [content |-> ERROR_PREFIX \o response.raised[1], fetched |-> TRUE]
    ELSE [content |-> extract_from_soup(response.soup).content, fetched |-> TRUE]

-----------------------------------------------------------------------------
(* UnitSpec: the inputs *)

\* No feed item is being processed.
NoItem == [item |-> <<>>, verdict |-> "none", content |-> ""]

MaxArticles == 3      \* longest list given to remove_duplicates
MaxElems == 2         \* freely chosen elements of a document
RunLen == 15          \* length of the run of long paragraphs that may follow

SeqsUpTo(S, n) == UNION {[1..k -> S] : k \in 0..n}

U1 == <<"i","n","c","4","2",".","c","o","m","/","a">>
U2 == <<"t",".","c","o","/","b">>

\* Article dicts: with a url (possibly empty) or without the key.
UnitArticles ==
    [title : {"A", "B", "C"}, url : {<<>>, U1, U2}] \cup [title : {"A", "B", "C"}]

UnknownTokens == {"", "1y", "7D"}
UnitTokens == DOMAIN timeframe_options \cup UnknownTokens
UnitNow == {200000, 200001}

\* Wall-clock readings around a start date, zones, and the zone of the host.
UnitStart == 100000
UnitOffsets == {0, 330}
UnitDates ==
    {EmptyDate, GarbageDate} \cup
    {Rfc2822(UnitStart + d, tz) :
        d \in {-331, -330, -1, 0, 1, 330, 331},
        tz \in {None} \cup {Some(o) : o \in UnitOffsets}}

\* Texts of 50 and of 51 characters, different at every position.
Letters == <<"a","b","c","d","e","f","g","h","i","j","k","l","m","n","o","p",
             "q","r","s","t","u","v","w","x","y","z">>
Filler49 == "xxxxxxxxxxxxxxxxxxxxxxxxxxxxxxxxxxxxxxxxxxxxxxxxx"
Text50(i) == Letters[i] \o Filler49
Text51(i) == Letters[i] \o Filler49 \o "."

\* The selectors that match in the documents drawn: the first and the third
\* of article_selectors.
DocSelectors == {"article", ".entry-content"}

\* Kinds of element: a text of 50 characters, one of 50 characters inside
\* whitespace ("padded", 51 raw characters) or one of 51 characters.
ElemKinds ==
    {k \in [tag : {"p", "div"}, cls : {"short", "padded", "long"},
            boiler : BOOLEAN, noise : BOOLEAN, within : SUBSET DocSelectors] :
        /\ (k.tag = "div" => k.cls # "padded")
        /\ (k.boiler \/ k.noise) => (k.tag = "p" /\ k.cls = "long")
        /\ ~(k.boiler /\ k.noise)}

LongParagraph(W) ==
    [tag |-> "p", cls |-> "long", boiler |-> FALSE, noise |-> FALSE, within |-> W]

Element(i, k) ==
    [tag |-> k.tag, boiler |-> k.boiler, noise |-> k.noise, within |-> k.within,
     raw |-> CASE k.cls = "short" -> RawText(0, Text50(i))
               [] k.cls = "padded" -> RawText(1, Text50(i))
               [] OTHER -> RawText(0, Text51(i))]

\* The document whose elements have the kinds `kinds`, in this order.
Document(kinds) ==
    [elems |-> [i \in 1..Len(kinds) |-> Element(i, kinds[i])],
     nodes |-> UNION {kinds[i].within : i \in 1..Len(kinds)}]

UnitDocuments ==
    {Document(prefix \o [i \in 1..n |-> LongParagraph(W)]) :
        prefix \in SeqsUpTo(ElemKinds, MaxElems),
        n \in {0, RunLen},
        W \in {{}, {"article"}}}

\* The hosts of the feed urls of rss_sources (lines 166-172), in dict order.
rss_source_hosts ==
    << <<"e","c","o","n","o","m","i","c","t","i","m","e","s",".","i","n","d","i","a","t","i","m","e","s",".","c","o","m">>,
       <<"w","w","w",".","b","u","s","i","n","e","s","s","-","s","t","a","n","d","a","r","d",".","c","o","m">>,
       <<"w","w","w",".","l","i","v","e","m","i","n","t",".","c","o","m">>,
       <<"w","w","w",".","f","i","n","a","n","c","i","a","l","e","x","p","r","e","s","s",".","c","o","m">>,
       <<"y","o","u","r","s","t","o","r","y",".","c","o","m">>,
       <<"i","n","c","4","2",".","c","o","m">>,
       <<"w","w","w",".","m","o","n","e","y","c","o","n","t","r","o","l",".","c","o","m">> >>

\* 'https://', the scheme of every url of the source.
scheme_https == <<"h","t","t","p","s",":","/","/">>

\* Urls given to extract_content_from_url, as the host and what follows it:
\* an article of each feed source, urls of the three redirectors, a search
\* page of google.com and an article whose query string names a redirector.
UnitUrls ==
    {[host |-> rss_source_hosts[i], path |-> <<"/","a">>] :
        i \in 1..Len(rss_source_hosts)} \cup
    { [host |-> <<"n","e","w","s",".","g","o","o","g","l","e",".","c","o","m">>, path |-> <<"/","r","s","s","/","x">>],
      [host |-> <<"w","w","w",".","g","o","o","g","l","e",".","c","o","m">>, path |-> <<"/","u","r","l","?","q","=","x">>],
      [host |-> <<"w","w","w",".","g","o","o","g","l","e",".","c","o","m">>, path |-> <<"/","s","e","a","r","c","h">>],
      [host |-> <<"t",".","c","o">>, path |-> <<"/","b">>],
      [host |-> <<"i","n","c","4","2",".","c","o","m">>, path |-> <<"/","a","?","v","i","a","=","t",".","c","o">>] }

\* The string of a url.
url_string(u) == scheme_https \o u.host \o u.path

\* What the GET of line 109 and the parse of line 112 may give for a url.
UnitResponses ==
    { [raised |-> Some("Read timed out")],
      [raised |-> None, soup |-> Document(<<LongParagraph({"article"})>>)],
      [raised |-> None, soup |-> Document(<< >>)] }

UnitInit ==
    /\ \/ fn = "remove_duplicates" /\ args \in SeqsUpTo(UnitArticles, MaxArticles)
       \/ fn = "_calculate_timeframe" /\ args \in [tf : UnitTokens, now : UnitNow]
       \/ fn = "is_article_in_timeframe"
          /\ args \in [pub_date_str : UnitDates, start_date : {UnitStart},
                       utc_offset : UnitOffsets]
       \/ fn = "extract_from_soup" /\ args \in UnitDocuments
       \/ fn = "extract_content_from_url"
          /\ args \in [url : UnitUrls, response : UnitResponses]
    /\ ret = <<>>
    /\ pc = "idle"
    /\ timeframe = "" /\ scraper = <<>> /\ api_key = None
    /\ src = 0 /\ items_left = 0 /\ budget = <<0, 0>> /\ cur = NoItem
    /\ articles = <<>> /\ all_articles = <<>> /\ kw = 0
    /\ unique_articles = <<>> /\ events = <<"none", "none">>
    /\ attempted = {} /\ last_failed = 0 /\ log = {} /\ exit_code = None

CallRemoveDuplicates ==
    /\ fn = "remove_duplicates" /\ ret = <<>>
    /\ ret' = <<remove_duplicates(args)>>
    /\ UNCHANGED <<fn, args, run_vars>>

CallCalculateTimeframe ==
    /\ fn = "_calculate_timeframe" /\ ret = <<>>
    /\ ret' = <<calculate_timeframe(args.tf, args.now)>>
    /\ UNCHANGED <<fn, args, run_vars>>

CallIsArticleInTimeframe ==
    /\ fn = "is_article_in_timeframe" /\ ret = <<>>
    /\ ret' = <<is_article_in_timeframe(args.pub_date_str, args.start_date)>>
    /\ UNCHANGED <<fn, args, run_vars>>

CallExtractFromSoup ==
    /\ fn = "extract_from_soup" /\ ret = <<>>
    /\ ret' = <<extract_from_soup(args)>>
    /\ UNCHANGED <<fn, args, run_vars>>

CallExtractContentFromUrl ==
    /\ fn = "extract_content_from_url" /\ ret = <<>>
    /\ ret' = <<extract_content_from_url(url_string(args.url), args.response)>>
    /\ UNCHANGED <<fn, args, run_vars>>

UnitNext ==
    \/ CallRemoveDuplicates
    \/ CallCalculateTimeframe
    \/ CallIsArticleInTimeframe
    \/ CallExtractFromSoup
    \/ CallExtractContentFromUrl

UnitSpec == UnitInit /\ [][UnitNext]_vars

-----------------------------------------------------------------------------
(* Properties of the pure methods, checked under UnitSpec *)

Returned(f) == fn = f /\ ret # <<>>

\* The deduplication key of an article: its url, "" when it has none.
UrlKey(a) == IF "url" \in DOMAIN a THEN a.url ELSE <<>>

\* The positions of a list that hold the first occurrence of their key.
FirstOccurrences(arts) ==
    {i \in 1..Len(arts) : \A j \in 1..(i - 1) : UrlKey(arts[j]) # UrlKey(arts[i])}

ExampleA == [title |-> "A", url |-> U1]
ExampleB == [title |-> "B", url |-> U2]
ExampleC == [title |-> "C", url |-> U1]

\* C1: remove_duplicates returns the subsequence of its input that keeps
\* exactly the first occurrence of each url (a missing url counts as ""):
\* the order is kept, no two results share a url, every input url appears,
\* at most one article with an empty url survives, and [A(u1), B(u2), C(u1)]
\* gives [A, B].
C1_FirstOccurrenceKept ==
    Returned("remove_duplicates") =>
        LET out == ret[1]
            keep == FirstOccurrences(args)
        IN /\ Len(out) = Cardinality(keep)
           /\ \A i \in keep : out[Cardinality({j \in keep : j <= i})] = args[i]
           /\ \A k, l \in 1..Len(out) : k # l => UrlKey(out[k]) # UrlKey(out[l])
           /\ {UrlKey(args[i]) : i \in 1..Len(args)}
                = {UrlKey(out[k]) : k \in 1..Len(out)}
           /\ Cardinality({k \in 1..Len(out) : UrlKey(out[k]) = <<>>}) <= 1
           /\ args = <<ExampleA, ExampleB, ExampleC>> => out = <<ExampleA, ExampleB>>

\* C1 witness: the example of the claim has been deduplicated.
C1_Witness ==
    /\ Returned("remove_duplicates")
    /\ args = <<ExampleA, ExampleB, ExampleC>>
    /\ ret[1] = <<ExampleA, ExampleB>>

\* The instant (UTC minutes) a parsed date denotes on a host whose zone is
\* utc_offset: a date without zone is local time.
InstantOf(wall, tz, utc_offset) ==
    wall - (IF tz = None THEN utc_offset ELSE tz[1])

\* C7: is_article_in_timeframe returns true for an empty or unparseable
\* date string, false for a well-formed date strictly before start and true
\* for a well-formed date at or after start.
C7_PermissiveAndExact ==
    Returned("is_article_in_timeframe") =>
        LET d == args.pub_date_str
            start == InstantOf(args.start_date, None, args.utc_offset)
        IN IF d.form = "rfc2822"
           THEN ret[1] = (InstantOf(d.wall, d.tz, args.utc_offset) >= start)
           ELSE ret[1] = TRUE

EnumeratedTokens ==
    {"6h", "12h", "24h", "2d", "3d", "7d", "14d", "30d", "60d", "90d"}

\* The documented duration of a token, in minutes.
DocumentedMinutes(t) ==
    CASE t = "6h" -> 6 * 60 [] t = "12h" -> 12 * 60 [] t = "24h" -> 24 * 60
      [] t = "2d" -> 2 * 1440 [] t = "3d" -> 3 * 1440 [] t = "7d" -> 7 * 1440
      [] t = "14d" -> 14 * 1440 [] t = "30d" -> 30 * 1440
      [] t = "60d" -> 60 * 1440 [] t = "90d" -> 90 * 1440

\* C9: for every enumerated token the window has start < end and lasts
\* exactly the documented duration; for any other token the window is the
\* one of '7d', a warning is logged and nothing is raised.
C9_WindowOfToken ==
    Returned("_calculate_timeframe") =>
        LET r == ret[1] IN
        /\ r.raised = None
        /\ IF args.tf \in EnumeratedTokens
           THEN /\ r.start_date < r.end_date
                /\ r.end_date - r.start_date = DocumentedMinutes(args.tf)
                /\ ~r.warned
           ELSE /\ r.end_date = args.now
                /\ r.start_date = args.now - DocumentedMinutes("7d")
                /\ r.timeframe = "7d"
                /\ r.warned

\* C9 witness: an unknown token has been resolved to the week before now.
C9_Witness ==
    /\ Returned("_calculate_timeframe")
    /\ args.tf = "1y"
    /\ ret[1].end_date - ret[1].start_date = 10080

\* What the extraction is about: the elements left after the removal of the
\* unwanted ones, and the selectors whose node holds a text of more than 50
\* characters.
Visible(doc) == SelectSeq(doc.elems, LAMBDA e : ~e.noise)
IsFragment(e) == Len(clean_text(e.raw)) > 50
Yields(doc, s) ==
    \E i \in 1..Len(doc.elems) :
        ~doc.elems[i].noise /\ s \in doc.elems[i].within /\ IsFragment(doc.elems[i])
YieldingIndexes(doc) ==
    {i \in 1..Len(article_selectors) : Yields(doc, article_selectors[i])}
FirstYielding(doc) ==
    CHOOSE i \in YieldingIndexes(doc) : \A j \in YieldingIndexes(doc) : i <= j

\* The fragments that survive: those of the first yielding selector's node,
\* or, when no selector yields, the document's p texts without boilerplate.
Survivors(doc) ==
    IF YieldingIndexes(doc) # {}
    THEN SelectSeq(Visible(doc),
            LAMBDA e : article_selectors[FirstYielding(doc)] \in e.within
                       /\ IsFragment(e))
    ELSE SelectSeq(Visible(doc),
            LAMBDA e : e.tag = "p" /\ IsFragment(e) /\ ~e.boiler)

\* The first n texts of a list of elements, each followed by a blank line
\* except the last.
BlankLineJoined(elems, n) ==
    LET J[k \in 1..n] ==
            IF k = 1 THEN elems[1].raw.body
            ELSE J[k - 1] \o "\n\n" \o elems[k].raw.body
    IN J[n]

\* C10: the selectors are probed in their listed order and none is probed
\* after one whose node yielded a fragment; method 2 runs only if method 1
\* yielded nothing; the result is the first at most 15 surviving fragments
\* in document order joined by a blank line, or the placeholder.
C10_TieredExtraction ==
    Returned("extract_from_soup") =>
        LET r == ret[1]
            doc == args
            n == Len(r.probed)
            surv == Survivors(doc)
        IN /\ r.probed = SubSeq(article_selectors, 1, n)
           /\ \A i \in 1..(n - 1) : ~Yields(doc, r.probed[i])
           /\ n < Len(article_selectors) => Yields(doc, r.probed[n])
           /\ r.tier2 = (YieldingIndexes(doc) = {})
           /\ r.content = IF surv = <<>> THEN EXTRACTION_FAILED
                          ELSE BlankLineJoined(surv, Min(15, Len(surv)))

\* C10 witness: the node of 'article' held more than 15 fragments, a later
\* selector's node held one too, and only 'article' was probed.
C10_Witness ==
    /\ Returned("extract_from_soup")
    /\ Len(Survivors(args)) > 15
    /\ Yields(args, "article") /\ Yields(args, ".entry-content")
    /\ \E i \in 1..Len(args.elems) :
          IsFragment(args.elems[i]) /\ args.elems[i].within = {".entry-content"}
    /\ ret[1].probed = <<"article">>
    /\ ~ret[1].tier2

\* The domains that spec and code name as redirectors.
NewsGoogleCom == <<"n","e","w","s",".","g","o","o","g","l","e",".","c","o","m">>
GoogleCom == <<"g","o","o","g","l","e",".","c","o","m">>
TDotCo == <<"t",".","c","o">>

StartsWith(s, prefix) ==
    Len(s) >= Len(prefix) /\ SubSeq(s, 1, Len(prefix)) = prefix
EndsWith(s, suffix) ==
    Len(s) >= Len(suffix) /\ SubSeq(s, Len(s) - Len(suffix) + 1, Len(s)) = suffix

\* A host belongs to a domain when it is the domain or one of its subdomains.
HostedOn(host, domain) == host = domain \/ EndsWith(host, <<".">> \o domain)

\* The url belongs to a redirector: a host of news.google.com, the /url
\* endpoint of google.com, or a host of t.co.
IsRedirector(u) ==
    \/ HostedOn(u.host, NewsGoogleCom)
    \/ HostedOn(u.host, GoogleCom) /\ StartsWith(u.path, <<"/","u","r","l">>)
    \/ HostedOn(u.host, TDotCo)

\* The url is hosted where a configured feed source is.
OnFeedSourceDomain(u) ==
    \E i \in 1..Len(rss_source_hosts) : HostedOn(u.host, rss_source_hosts[i])

\* The call returned the placeholder without a GET.
ShortCircuited == ret[1].content = REDIRECT_SKIPPED /\ ~ret[1].fetched

\* C11: extract_content_from_url returns the redirect placeholder without
\* fetching exactly when the url belongs to a redirector domain; a url on
\* the domain of a configured feed source is never short-circuited and is
\* always fetched.
C11_RedirectorsOnly ==
    Returned("extract_content_from_url") =>
        /\ ShortCircuited <=> IsRedirector(args.url)
        /\ OnFeedSourceDomain(args.url) => (ret[1].fetched /\ ~ShortCircuited)


-----------------------------------------------------------------------------
(* The run of main(): configuration and the environment's answers *)

MaxFeedItems == 2     \* feed items served in one run, over all sources
MaxApiResults == 1    \* NewsAPI results served in one run, over all keywords
MaxSources == 3       \* entries of rss_sources that the run harvests

\* parse_timeframe_argument: the --timeframe flag (<<>> when absent) and the
\* SCRAPE_TIMEFRAME variable (<<>> when unset).  argparse checks a flag
\* against `choices` but not the default; a rejected flag raises SystemExit,
\* which lines 383-386 answer with the environment's value.
timeframe_choices ==
    {"6h", "12h", "24h", "2d", "3d", "7d", "14d", "30d", "60d", "90d"}
getenv_timeframe(env) == IF env = None THEN "7d" ELSE env[1]
parse_timeframe_argument(flag, env) ==
    IF flag = None THEN getenv_timeframe(env)
    ELSE IF flag[1] \in timeframe_choices THEN flag[1]
    ELSE getenv_timeframe(env)

RunFlags == {None, Some("7d"), Some("1y")}
RunEnvs == {None, Some("7d"), Some("1y")}
RunClock == {200000}

\* rss_sources (lines 165-173), in dict order.
rss_sources ==
    << "Economic Times", "Business Standard", "LiveMint", "Financial Express",
       "YourStory", "Inc42", "MoneyControl" >>

\* The run harvests the first MaxSources entries of the table.
NumSources == Min(MaxSources, Len(rss_sources))

\* The NewsAPI keywords of line 290.
api_keywords == << "quick commerce india", "blinkit", "zepto", "swiggy instamart" >>

\* self.keywords (lines 49-55)
keywords ==
    { <<"q","u","i","c","k"," ","c","o","m","m","e","r","c","e">>,
      <<"q","-","c","o","m","m","e","r","c","e">>,
      <<"q","u","i","c","k","-","c","o","m","m","e","r","c","e">>,
      <<"q","c","o","m","m","e","r","c","e">>,
      <<"b","l","i","n","k","i","t">>,
      <<"z","e","p","t","o">>,
      <<"s","w","i","g","g","y"," ","i","n","s","t","a","m","a","r","t">>,
      <<"i","n","s","t","a","m","a","r","t">>,
      <<"a","m","a","z","o","n"," ","n","o","w">>,
      <<"f","l","i","p","k","a","r","t"," ","m","i","n","u","t","e","s">>,
      <<"b","i","g","b","a","s","k","e","t"," ","n","o","w">>,
      <<"d","u","n","z","o">>,
      <<"g","r","o","f","e","r","s">>,
      <<"u","l","t","r","a"," ","f","a","s","t"," ","d","e","l","i","v","e","r","y">>,
      <<"1","0"," ","m","i","n","u","t","e"," ","d","e","l","i","v","e","r","y">>,
      <<"i","n","s","t","a","n","t"," ","d","e","l","i","v","e","r","y">>,
      <<"r","a","p","i","d"," ","d","e","l","i","v","e","r","y">>,
      <<"d","a","r","k"," ","s","t","o","r","e">>,
      <<"d","a","r","k"," ","s","t","o","r","e","s">> }

UpperLetters == <<"A","B","C","D","E","F","G","H","I","J","K","L","M","N","O","P",
                  "Q","R","S","T","U","V","W","X","Y","Z">>
\* str.lower()
lower(chars) ==
    [i \in DOMAIN chars |->
        IF \E k \in 1..26 : UpperLetters[k] = chars[i]
        THEN Letters[CHOOSE k \in 1..26 : UpperLetters[k] = chars[i]]
        ELSE chars[i]]

\* line 200
title_has_keyword(title) ==
    \E keyword \in keywords : Contains(lower(keyword), lower(title))

U3 == <<"l","i","v","e","m","i","n","t",".","c","o","m","/","c">>
U4 == <<"y","o","u","r","s","t","o","r","y",".","c","o","m","/","d">>
TitleZepto == <<"Z","e","p","t","o"," ","I","P","O">>
TitleBlinkit == <<"B","L","I","N","K","I","T"," ","e","x","p","a","n","d","s">>
TitleDunzo == <<"D","u","n","z","o"," ","s","h","u","t","s">>
TitleBudget == <<"B","u","d","g","e","t"," ","2","0","2","6">>

\* The items a feed document may hold.  `when` places the pubDate relative
\* to the window of the run; "missing" is an item without pubDate element.
FeedItems ==
    { [title |-> Some(RawText(0, TitleZepto)), link |-> Some(U1), when |-> "start",
       description |-> Some(RawText(2, "Zepto files"))],
      [title |-> Some(RawText(1, TitleBlinkit)), link |-> Some(U3), when |-> "end",
       description |-> None],
      [title |-> Some(RawText(0, TitleZepto)), link |-> Some(U1), when |-> "before",
       description |-> None],
      [title |-> Some(RawText(0, TitleBudget)), link |-> Some(U4), when |-> "missing",
       description |-> None],
      [title |-> Some(RawText(0, TitleDunzo)), link |-> Some(<<>>), when |-> "garbage",
       description |-> None],
      [title |-> Some(RawText(0, TitleZepto)), link |-> None, when |-> "start",
       description |-> None] }

\* The pubDate element of an item, <<>> when the item has none.
pub_date_elem(item, start_date, end_date) ==
    CASE item.when = "before" -> Some(Rfc2822(start_date - 1, Some(330)))
      [] item.when = "start" -> Some(Rfc2822(start_date, None))
      [] item.when = "end" -> Some(Rfc2822(end_date, Some(330)))
      [] item.when = "garbage" -> Some(GarbageDate)
      [] OTHER -> None

\* What the GET and the parse of an article page may give.
DocText == Document(<<LongParagraph({"article"}), LongParagraph({})>>)
DocBare == Document(<< >>)
PageResponses(url) ==
    IF url = <<>>
    THEN {[raised |-> Some("Invalid URL '': No scheme supplied")]}
    ELSE {[raised |-> Some("Read timed out")],
          [raised |-> None, soup |-> DocText],
          [raised |-> None, soup |-> DocBare]}

\* The entries of the `articles` list of a NewsAPI response.
ApiEntries ==
    { [url |-> U1, content |-> <<"Z","e","p","t","o"," ","r","a","i","s","e","s","[","+","1","2","0"," ","c","h","a","r","s","]">>,
       title |-> RawText(0, <<"Z","e","p","t","o"," ","r","a","i","s","e","s">>), source |-> [name |-> "Inc42"],
       publishedAt |-> [form |-> "iso8601", text |-> "2026-01-09T10:00:00Z"], description |-> RawText(0, "")],
      [url |-> U4, content |-> <<"[","+","9","9"," ","c","h","a","r","s","]">>,
       title |-> RawText(1, <<"B","l","i","n","k","i","t">>), source |-> [id |-> "x"],
       publishedAt |-> [form |-> "iso8601", text |-> "2026-01-09T11:00:00Z"], description |-> RawText(0, "")],
      [url |-> U4, content |-> <<"D","a","r","k"," ","s","t","o","r","e","s">>,
       title |-> RawText(0, <<"D","a","r","k"," ","s","t","o","r","e","s">>),
       publishedAt |-> [form |-> "iso8601", text |-> "2026-01-09T12:00:00Z"], description |-> RawText(0, "")],
      [content |-> <<"N","o"," ","u","r","l">>, title |-> RawText(0, <<"N","o"," ","u","r","l">>),
       publishedAt |-> EmptyDate, description |-> RawText(0, "")],
      [url |-> U1, content |-> <<>>, title |-> RawText(0, <<"N","o"," ","c","o","n","t","e","n","t">>),
       publishedAt |-> EmptyDate, description |-> RawText(0, "")] }

-----------------------------------------------------------------------------
(* search_news_api *)

\* dict.get(key, default)
get(d, key, default) == IF key \in DOMAIN d THEN d[key] ELSE default

\* content.split('[+')[0]
before_marker(content) ==
    LET hits == {i \in 1..(Len(content) - 1) :
                    content[i] = "[" /\ content[i + 1] = "+"}
    IN IF hits = {} THEN content
       ELSE SubSeq(content, 1, (CHOOSE i \in hits : \A j \in hits : i <= j) - 1)

NEWSAPI_UNAVAILABLE == "NewsAPI content not available"

\* A variant of lines 255-266 that stores the stripped content as it is.
api_article_data_no_fallback(article, query) ==
    [title |-> clean_text(get(article, "title", RawText(0, <<>>))),
     url |-> article.url,
     source |-> get(get(article, "source", <<>>), "name", "NewsAPI"),
     published_date |-> get(article, "publishedAt", EmptyDate),
     description |-> clean_text(get(article, "description", RawText(0, ""))),
     content |-> Str(before_marker(article.content)),
     via |-> "api"]

\* The dict built at lines 255-266 from an entry that has url and content.
\* `via` is an annotation: the harvester that built the article.
api_article_data(article, query) ==
    LET content0 == get(article, "content", <<>>)
        content == IF Contains(<<"[", "+">>, content0)
                   THEN before_marker(content0) ELSE content0
    IN [title |-> clean_text(get(article, "title", RawText(0, <<>>))),
        url |-> article.url,
        source |-> get(get(article, "source", <<>>), "name", "NewsAPI"),
        published_date |-> get(article, "publishedAt", EmptyDate),
        description |-> clean_text(get(article, "description", RawText(0, ""))),
        content |-> IF content # <<>> THEN Str(content) ELSE NEWSAPI_UNAVAILABLE,
        via |-> "api"]

\* The loop of lines 252-268.
RECURSIVE api_loop(_, _, _)
api_loop(entries, query, found) ==
    IF entries = <<>> THEN found
    ELSE LET article == Head(entries) IN
         IF get(article, "url", <<>>) # <<>> /\ get(article, "content", <<>>) # <<>>
         THEN api_loop(Tail(entries), query,
                       Append(found, api_article_data(article, query)))
         ELSE api_loop(Tail(entries), query, found)

\* search_news_api(query) with NEWS_API_KEY = key; `response` is what the GET
\* of line 248 and response.json() give: [raised |-> <<str(e)>>] or
\* [raised |-> <<>>, articles |-> the entries].  `requested` tells whether
\* the GET was issued.
search_news_api(query, key, response) ==
    IF key = None
    THEN [articles |-> <<>>, requested |-> FALSE, logged |-> {"newsapi_skipped"}]
    ELSE IF response.raised # None
    THEN [articles |-> <<>>, requested |-> TRUE, logged |-> {"newsapi_error"}]
    ELSE [articles |-> api_loop(response.articles, query, <<>>),
          requested |-> TRUE, logged |-> {}]

\* The answers NewsAPI may give when it can still serve n results.
ApiResponses(n) ==
    {[raised |-> Some("503 Server Error")]} \cup
    {[raised |-> None, articles |-> e] : e \in SeqsUpTo(ApiEntries, Min(50, n))}

-----------------------------------------------------------------------------
(* The run of main() *)

RunInit ==
    /\ fn = "none" /\ args = <<>> /\ ret = <<>>
    /\ pc = "parse_args"
    /\ timeframe = ""
    /\ scraper = [timeframe |-> "", start_date |-> 0, end_date |-> 0]
    /\ api_key \in {None, Some("key")}
    /\ src = 0 /\ items_left = 0
    /\ budget = <<MaxFeedItems, MaxApiResults>>
    /\ cur = NoItem
    /\ articles = <<>> /\ all_articles = <<>> /\ kw = 0
    /\ unique_articles = <<>>
    /\ events = <<"none", "none">>
    /\ attempted = {} /\ last_failed = 0 /\ log = {} /\ exit_code = None

Emit(e) == events' = <<events[2], e>>

\* line 393
ParseArgs ==
    /\ pc = "parse_args"
    /\ \E flag \in RunFlags, env \in RunEnvs :
          timeframe' = parse_timeframe_argument(flag, env)
    /\ pc' = "construct"
    /\ UNCHANGED <<unit_vars, scraper, api_key, src, items_left, budget, cur,
                   articles, all_articles, kw, unique_articles, events,
                   attempted, last_failed, log, exit_code>>

\* line 394: __init__, which calls _calculate_timeframe
Construct ==
    /\ pc = "construct"
    /\ \E now \in RunClock :
          LET r == calculate_timeframe(timeframe, now) IN
          /\ scraper' = [timeframe |-> r.timeframe, start_date |-> r.start_date,
                         end_date |-> r.end_date]
          /\ log' = log \cup (IF r.warned THEN {"invalid_timeframe"} ELSE {})
    /\ pc' = "log_timeframe"
    /\ UNCHANGED <<unit_vars, timeframe, api_key, src, items_left, budget, cur,
                   articles, all_articles, kw, unique_articles, events,
                   attempted, last_failed, exit_code>>

\* lines 396-397: scraper.timeframe_options[timeframe] with main's local
\* `timeframe`; a KeyError reaches the except clause of lines 418-421.
LogTimeframe ==
    /\ pc = "log_timeframe"
    /\ IF timeframe \in DOMAIN timeframe_options
       THEN /\ pc' = "rss_fetch" /\ src' = 1
            /\ UNCHANGED <<log, exit_code>>
       ELSE /\ pc' = "exited" /\ src' = src
            /\ log' = log \cup {"fatal"}
            /\ exit_code' = Some(1)
    /\ UNCHANGED <<unit_vars, timeframe, scraper, api_key, items_left, budget,
                   cur, articles, all_articles, kw, unique_articles, events,
                   attempted, last_failed>>

\* Lines 185-200 on one item: why it is skipped, or "accepted".
item_verdict(item, start_date, end_date) ==
    IF item.title = None \/ item.link = None THEN "no_title_or_link"
    ELSE LET title == clean_text(item.title[1])
             elem == pub_date_elem(item, start_date, end_date)
             pub_date == IF elem # None THEN elem[1] ELSE EmptyDate
         IN IF ~is_article_in_timeframe(pub_date, start_date)
            THEN "out_of_timeframe"
            ELSE IF title_has_keyword(title) THEN "accepted"
            ELSE "no_keyword"

\* The dict built at lines 205-212.  `via` is an annotation.
rss_article_data(item, source_name, content, start_date, end_date) ==
    LET elem == pub_date_elem(item, start_date, end_date) IN
    [title |-> clean_text(item.title[1]),
     url |-> item.link[1],
     source |-> source_name,
     published_date |-> IF elem # None THEN elem[1] ELSE EmptyDate,
     description |-> IF item.description # None
                     THEN clean_text(item.description[1]) ELSE "",
     content |-> content,
     via |-> "rss"]

\* lines 176-182: the GET and the parse of a feed succeed
RssFetchOk ==
    /\ pc = "rss_fetch" /\ src <= NumSources
    /\ \E n \in 0..Min(30, budget[1]) :
          /\ items_left' = n
          /\ budget' = <<budget[1] - n, budget[2]>>
    /\ attempted' = attempted \cup {src}
    /\ Emit("feed_get")
    /\ pc' = "rss_items"
    /\ UNCHANGED <<unit_vars, timeframe, scraper, api_key, src, cur, articles,
                   all_articles, kw, unique_articles, last_failed, log,
                   exit_code>>

\* A variant of lines 217-219 that leaves the loop on a failure.
RssFetchFailBreak ==
    /\ pc = "rss_fetch" /\ src <= NumSources
    /\ attempted' = attempted \cup {src}
    /\ Emit("feed_get")
    /\ last_failed' = src
    /\ src' = NumSources + 1
    /\ UNCHANGED <<unit_vars, pc, timeframe, scraper, api_key, items_left, budget,
                   cur, articles, all_articles, kw, unique_articles, log,
                   exit_code>>

\* lines 176-182 and 217-219: the GET, raise_for_status or the parse raises;
\* the error is logged and the loop goes on with the next source
RssFetchFail ==
    /\ pc = "rss_fetch" /\ src <= NumSources
    /\ attempted' = attempted \cup {src}
    /\ Emit("feed_get")
    /\ last_failed' = src
    /\ src' = src + 1
    /\ UNCHANGED <<unit_vars, pc, timeframe, scraper, api_key, items_left, budget,
                   cur, articles, all_articles, kw, unique_articles, log,
                   exit_code>>

\* lines 184-200: the next item of the feed is filtered
RssItem ==
    /\ pc = "rss_items" /\ items_left > 0
    /\ \E item \in FeedItems :
          LET verdict == item_verdict(item, scraper.start_date, scraper.end_date)
          IN /\ cur' = [item |-> item, verdict |-> verdict, content |-> ""]
             /\ pc' = IF verdict = "accepted" THEN "rss_extract" ELSE "rss_items"
    /\ items_left' = items_left - 1
    /\ UNCHANGED <<unit_vars, timeframe, scraper, api_key, src, budget, articles,
                   all_articles, kw, unique_articles, events, attempted,
                   last_failed, log, exit_code>>

\* line 203
RssExtract ==
    /\ pc = "rss_extract"
    /\ \E response \in PageResponses(cur.item.link[1]) :
          LET r == extract_content_from_url(cur.item.link[1], response) IN
          cur' = [cur EXCEPT !.content = r.content]
    /\ Emit("extract")
    /\ pc' = "rss_append"
    /\ UNCHANGED <<unit_vars, timeframe, scraper, api_key, src, items_left, budget,
                   articles, all_articles, kw, unique_articles, attempted,
                   last_failed, log, exit_code>>

\* A variant of lines 205-215 without the time.sleep(2).
RssAppendNoSleep ==
    /\ pc = "rss_append"
    /\ articles' = Append(articles,
            rss_article_data(cur.item, rss_sources[src], cur.content,
                             scraper.start_date, scraper.end_date))
    /\ pc' = "rss_items"
    /\ UNCHANGED <<unit_vars, timeframe, scraper, api_key, src, items_left, budget,
                   cur, all_articles, kw, unique_articles, events, attempted,
                   last_failed, log, exit_code>>

\* lines 205-215: the article is appended, then the rate-limit pause
RssAppendSleep ==
    /\ pc = "rss_append"
    /\ articles' = Append(articles,
            rss_article_data(cur.item, rss_sources[src], cur.content,
                             scraper.start_date, scraper.end_date))
    /\ Emit("sleep")
    /\ pc' = "rss_items"
    /\ UNCHANGED <<unit_vars, timeframe, scraper, api_key, src, items_left, budget,
                   cur, all_articles, kw, unique_articles, attempted,
                   last_failed, log, exit_code>>

\* line 184: the items of the feed are exhausted
RssFeedDone ==
    /\ pc = "rss_items" /\ items_left = 0
    /\ src' = src + 1
    /\ pc' = "rss_fetch"
    /\ UNCHANGED <<unit_vars, timeframe, scraper, api_key, items_left, budget, cur,
                   articles, all_articles, kw, unique_articles, events,
                   attempted, last_failed, log, exit_code>>

\* lines 221 and 283-284: the harvest returns and its articles are added;
\* the bookkeeping of the harvest ends with it
RssReturn ==
    /\ pc = "rss_fetch" /\ src > NumSources
    /\ all_articles' = all_articles \o articles
    /\ src' = 0 /\ cur' = NoItem /\ attempted' = {} /\ last_failed' = 0
    /\ budget' = <<0, budget[2]>>
    /\ kw' = 1
    /\ pc' = "api_query"
    /\ UNCHANGED <<unit_vars, timeframe, scraper, api_key, items_left, articles,
                   unique_articles, events, log, exit_code>>

\* lines 292-294: one keyword is queried and its articles are added
ApiQuery ==
    /\ pc = "api_query" /\ kw <= Len(api_keywords)
    /\ \E response \in IF api_key = None THEN {[raised |-> None, articles |-> <<>>]}
                       ELSE ApiResponses(budget[2]) :
          LET r == search_news_api(api_keywords[kw], api_key, response) IN
          /\ all_articles' = all_articles \o r.articles
          /\ budget' = <<budget[1],
                         budget[2] - (IF response.raised = None
                                      THEN Len(response.articles) ELSE 0)>>
    /\ Emit("api_query")
    /\ pc' = "api_sleep"
    /\ UNCHANGED <<unit_vars, timeframe, scraper, api_key, src, items_left, cur,
                   articles, kw, unique_articles, attempted, last_failed, log,
                   exit_code>>

\* line 295
ApiSleep ==
    /\ pc = "api_sleep"
    /\ Emit("sleep")
    /\ kw' = kw + 1
    /\ pc' = "api_query"
    /\ UNCHANGED <<unit_vars, timeframe, scraper, api_key, src, items_left, budget,
                   cur, articles, all_articles, unique_articles, attempted,
                   last_failed, log, exit_code>>

\* lines 303-306
Deduplicate ==
    /\ pc = "api_query" /\ kw > Len(api_keywords)
    /\ unique_articles' = remove_duplicates(all_articles)
    /\ pc' = "report"
    /\ UNCHANGED <<unit_vars, timeframe, scraper, api_key, src, items_left, budget,
                   cur, articles, all_articles, kw, events, attempted,
                   last_failed, log, exit_code>>

\* lines 401-416: the report is written (or cannot be), and main returns
Report ==
    /\ pc = "report"
    /\ IF unique_articles # <<>>
       THEN \E saved \in BOOLEAN :
               log' = log \cup (IF saved THEN {"saved"} ELSE {"save_error"})
       ELSE log' = log \cup {"no_articles"}
    /\ exit_code' = Some(0)
    /\ pc' = "exited"
    /\ UNCHANGED <<unit_vars, timeframe, scraper, api_key, src, items_left, budget,
                   cur, articles, all_articles, kw, unique_articles, events,
                   attempted, last_failed>>

Next ==
    \/ ParseArgs
    \/ Construct
    \/ LogTimeframe
    \/ RssFetchOk
    \/ RssFetchFail
    \/ RssItem
    \/ RssExtract
    \/ RssAppendSleep
    \/ RssFeedDone
    \/ RssReturn
    \/ ApiQuery
    \/ ApiSleep
    \/ Deduplicate
    \/ Report

Spec == RunInit /\ [][Next]_vars

-----------------------------------------------------------------------------
(* Properties of the run, checked under Spec *)

IsPrefix(s, t) == Len(s) <= Len(t) /\ SubSeq(t, 1, Len(s)) = s
Elements(s) == {s[i] : i \in 1..Len(s)}
Harvested == Elements(articles) \cup Elements(all_articles) \cup Elements(unique_articles)

\* C2: the list handed to remove_duplicates is the feed harvest followed by
\* the articles of each keyword query in the order of the queries, so a url
\* that a feed article and an API article share is kept in its feed version;
\* two feed articles and one API article repeating one of them leave exactly
\* two articles.
C2_FeedBeforeApi ==
    /\ [](/\ pc \in {"api_query", "api_sleep", "report", "exited"}
             => /\ IsPrefix(articles, all_articles)
                /\ \A i \in 1..Len(all_articles) :
                      all_articles[i].via = (IF i <= Len(articles) THEN "rss" ELSE "api")
          /\ pc \in {"report", "exited"} =>
                /\ \A a \in Elements(all_articles), u \in Elements(unique_articles) :
                      (a.via = "rss" /\ u.url = a.url) => u.via = "rss"
                /\ \A a \in Elements(all_articles) :
                      \E u \in Elements(unique_articles) : u.url = a.url
                /\ ( /\ Len(articles) = 2 /\ Len(all_articles) = 3
                     /\ articles[1].url # articles[2].url
                     /\ all_articles[3].url \in {articles[1].url, articles[2].url} )
                   => unique_articles = articles)
    /\ [][ /\ (pc = "api_query" /\ pc' = "api_sleep")
              => /\ IsPrefix(all_articles, all_articles')
                 /\ \A i \in (Len(all_articles) + 1)..Len(all_articles') :
                       all_articles'[i].via = "api"
                 /\ kw' = kw
           /\ (pc = "api_sleep" /\ pc' = "api_query")
              => (kw' = kw + 1 /\ all_articles' = all_articles)
           /\ (pc = "api_query" /\ pc' = "report")
              => (kw = Len(api_keywords) + 1 /\ all_articles' = all_articles) ]_vars

\* C2 witness: two feed articles, an API article with the url of the first,
\* and a result that is the two feed articles.
C2_Witness ==
    /\ pc = "report"
    /\ Len(articles) = 2 /\ Len(all_articles) = 3
    /\ articles[1].url # articles[2].url
    /\ all_articles[3].via = "api" /\ all_articles[3].url = articles[1].url
    /\ unique_articles = articles

\* C3: a run whose timeframe token is outside the enumerated set replaces it
\* by '7d' with a warning and never ends on the fatal path.
C3_UnknownTokenNotFatal ==
    (pc \notin {"parse_args", "construct"} /\ timeframe \notin EnumeratedTokens)
        => /\ scraper.timeframe = "7d"
           /\ "invalid_timeframe" \in log
           /\ exit_code # Some(1)

\* The positions of the harvest loop of search_direct_rss_feeds.
InHarvest == pc \in {"rss_fetch", "rss_items", "rss_extract", "rss_append"}
HarvestDone == pc = "rss_fetch" /\ src > NumSources

\* C4: a failure of one feed source never aborts the harvest: the next
\* source is attempted, the articles collected so far are kept and returned,
\* and the harvester returns instead of raising.
C4_FailureIsolated ==
    /\ [](/\ HarvestDone => attempted = 1..NumSources
          /\ exit_code = Some(1) => (events = <<"none", "none">> /\ all_articles = <<>>))
    /\ [][ /\ (last_failed' # last_failed /\ last_failed' # 0)
              => /\ last_failed' = src
                 /\ articles' = articles
                 /\ src' = src + 1 /\ pc' = "rss_fetch"
                 /\ exit_code' = None
           /\ (InHarvest /\ pc' # "api_query") => IsPrefix(articles, articles')
           /\ (InHarvest /\ pc' = "api_query")
              => (HarvestDone /\ all_articles' = articles /\ articles' = articles) ]_vars

\* C4 witness: the first source gave an article, the second failed, the
\* third was attempted, and the article is still there at the end.
C4_Witness ==
    /\ HarvestDone
    /\ last_failed = 2
    /\ attempted = 1..NumSources
    /\ \E a \in Elements(articles) : a.source = rss_sources[1]
    /\ \E a \in Elements(articles) : a.source = rss_sources[3]

\* C5: every article of either harvester has a content that is present and
\* not the empty string.
C5_ContentNeverEmpty ==
    \A a \in Harvested : "content" \in DOMAIN a /\ Len(a.content) > 0

\* C5 witness: a feed article whose page could not be fetched and an API
\* article whose content was only a truncation marker.
C5_Witness ==
    /\ \E a \in Elements(all_articles) :
          a.via = "rss" /\ a.content = ERROR_PREFIX \o "Read timed out"
    /\ \E a \in Elements(all_articles) :
          a.via = "api" /\ a.content = NEWSAPI_UNAVAILABLE

HasWall(a) == a.published_date.form = "rfc2822"

C8_PauseAfterRequest ==
    /\ events[1] \in {"extract", "api_query"} => events[2] = "sleep"
    /\ events[2] = "extract" <=> pc = "rss_append"
    /\ events[2] = "api_query" <=> pc = "api_sleep"

\* C8 witness: a keyword query has been followed by its pause, after a feed
\* harvest in which a page was extracted.
C8_Witness ==
    /\ events = <<"api_query", "sleep">>
    /\ Len(articles) > 0
    /\ kw = 2

=============================================================================
